---- MODULE Spec2Model ----
(***************************************************************************)
(* ArcGIS adapter (src/mcp/arcgis_client.py): the token manager of         *)
(* ArcGISClient run by concurrent coroutines, and the catalog fetch /      *)
(* service resolution / layer query chain run by one client; the process   *)
(* that serves the client (src/mcp/main.py); the tool schemas and the      *)
(* request handling of the agent (src/agent/arcgis_agent.py).              *)
(*                                                                         *)
(* Time is counted in minutes.  A token value is the serial number of the  *)
(* issuance request that returned it, so two issued tokens never compare   *)
(* equal.  Strings that the code splits or concatenates on "/" (service    *)
(* names, folders, endpoints) are sequences of "/"-free words and "/".     *)
(***************************************************************************)
EXTENDS Integers, Sequences, FiniteSets, TLC

\* ------------------------------------------------------------------ bounds
NumCallers == 2
MaxTime == 110
MaxIssued == 3
MaxFolderSvc == 2

\* ------------------------------------------------------- program constants
\* self.portal_token = None / self.token_expires_at = None
NoToken == 0
NoExpiry == -1
\* buffer_time = datetime.timedelta(minutes=5)
BufferMinutes == 5
\* datetime.timedelta(hours=1)
LifetimeMinutes == 60

\* get_portal_token(expiration=3600): the "expiration" field of the
\* generateToken request of a refresh, which the portal reads in minutes
RefreshExpiration == 3600

\* None as the value of an Optional[int] argument
None == -999
\* max_record_count = 1000
DefaultMaxRecordCount == 1000

Callers == 1..NumCallers

\* the clock advances by the time a fresh token stays outside the buffer
TickMinutes == LifetimeMinutes - BufferMinutes

VARIABLES
    \* ArcGISClient fields
    portal_token,       \* NoToken or the cached token value
    token_expires_at,   \* NoExpiry or the minute the cached token is taken to expire
    \* environment
    now,                \* datetime.datetime.now(), in minutes
    issued,             \* number of generateToken requests sent so far
    expiry_token,       \* the token value token_expires_at was recorded for
    \* coroutines running call_arcgis_api(use_token=True) or get_portal_token()
    pc,                 \* "idle", "post", "closing", "get", "done"
    op,                 \* "none", "api", "direct"
    ens_reqs,           \* generateToken requests sent by the current call
    ens_ok,             \* what _ensure_valid_token returned
    req,                \* serial number of the in-flight generateToken request
    ret,                \* what get_portal_token returns
    sent_token,         \* token attached to the GET
    result,             \* "none", "ok", "error"
    \* the GIS server, and one client running list_services or
    \* get_service_details
    backend,            \* what the listing endpoints answer
    cpc,                \* "idle", "root", "folders", "meta", "layer", "done",
                        \* "responded"
    c_op,               \* "none", "list", "list_categorized", "details",
                        \* "query", "layer_info"
    service_name,       \* argument of get_service_details
    folder,             \* argument of get_service_details
    folders_left,       \* folders of the root listing not yet fetched
    all_services,       \* services collected so far
    failed,             \* endpoints whose GET did not answer with its payload
    log,                \* requests sent by the current operation
    matching_service,   \* what the resolver loop found
    c_result,           \* what the operation returns
    response,           \* what the HTTP endpoint of main.py answers
    \* arguments and locals of query_service_layer and get_layer_info
    layer_id,
    where,
    result_record_count,
    max_record_count,
    result_offset,
    provided,           \* the other optional arguments given with a value
    query_params,
    \* the service that the categorizing loop of list_services is at
    classified,
    \* the serving process (main.py, arcgis_fastapi_server.py)
    environ,            \* os.environ: each required variable unset, "" or set
    server_module,      \* the module that is run
    process,            \* "loading", "serving", "exited"
    arcgis_server,      \* the module global: "None" or "client"
    http_response,      \* what the last request was answered with
    \* _create_dynamic_tool of the agent
    agent_module,       \* "arcgis_agent" or "langchain_agent"
    pydantic,           \* the major version of the library: 1 or 2
    parameters,         \* function_info["parameters"]
    fields,             \* the Field objects made for the parameters
    annotations,        \* the annotations made for the parameters
    schema,             \* the fields of the model class given as args_schema
    \* the agent (ArcGISLangChainAgent) and the requests that agent/main.py
    \* serves with it, each a coroutine
    initialized,        \* self._initialized
    tools,              \* self.tools: the names of the tools
    function_info,      \* self.function_info: the names of the functions
    current_tools_used, \* self.current_tools_used
    discoveries,        \* number of runs of _discover_mcp_tools so far
    a_kind,             \* per request: "none", "chat", "tools"
    apc,                \* per request: "idle", "discover", "invoke", "done"
    invoked,            \* per request: the tools it invoked, in order of first use
    tools_used          \* per request: the tools_used of its response

tokenVars == <<portal_token, token_expires_at, now, issued, expiry_token>>
callerVars == <<pc, op, ens_reqs, ens_ok, req, ret, sent_token, result>>
catVars == <<backend, cpc, c_op, service_name, folder, folders_left,
             all_services, failed, log, matching_service, c_result>>
queryVars == <<layer_id, where, result_record_count, max_record_count,
               result_offset, provided, query_params>>
serveVars == <<environ, server_module, process, arcgis_server, http_response>>
schemaVars == <<agent_module, pydantic, parameters, fields, annotations,
                schema>>
coreVars == <<tokenVars, callerVars, catVars, response, queryVars, classified>>
agentVars == <<initialized, tools, function_info, current_tools_used,
               discoveries, a_kind, apc, invoked, tools_used>>
extVars == <<serveVars, schemaVars, agentVars>>
vars == <<portal_token, token_expires_at, now, issued, expiry_token,
          pc, op, ens_reqs, ens_ok, req, ret, sent_token, result,
          backend, cpc, c_op, service_name, folder, folders_left,
          all_services, failed, log, matching_service, c_result,
          response, layer_id, where, result_record_count, max_record_count,
          result_offset, provided, query_params, classified,
          environ, server_module, process, arcgis_server, http_response,
          agent_module, pydantic, parameters, fields, annotations, schema,
          initialized, tools, function_info, current_tools_used, discoveries,
          a_kind, apc, invoked, tools_used>>

\* ------------------------------------------------------------ TokenManager

\* _is_token_expired with the buffer left out of the comparison
IsTokenExpiredNoBuffer(tok, exp, t) ==
    IF tok = NoToken \/ exp = NoExpiry THEN TRUE ELSE t >= exp

\* _is_token_expired with the comparison turned round
IsTokenExpiredFlipped(tok, exp, t) ==
    IF tok = NoToken \/ exp = NoExpiry THEN TRUE
    ELSE t <= exp - BufferMinutes

\* _is_token_expired
IsTokenExpired(tok, exp, t) ==
    IF tok = NoToken \/ exp = NoExpiry THEN TRUE
    ELSE t >= exp - BufferMinutes

\* outcomes of the generateToken POST: 200 with a token, 200 without one,
\* another status, an exception (timeout, connection failure)
TokenOutcomes == {"ok", "no_token", "http_error", "exception"}

\* get_portal_token clearing the cached token when the request fails
TokenAfterResponseClearing(outcome, cur, new) ==
    IF outcome = "ok" THEN new ELSE NoToken

\* get_portal_token: self.portal_token after the response
TokenAfterResponse(outcome, cur, new) ==
    IF outcome = "ok" THEN new ELSE cur

\* get_portal_token: the returned value
TokenReturned(outcome, new) ==
    IF outcome = "ok" THEN new ELSE NoToken

\* ------------------------------------------------------------------ strings
\* A string is a sequence of symbols: "/" and letters, each letter standing
\* for a "/"-free word.  "" is << >>.
Slash == "/"

\* "/" in s
HasSlash(s) == \E i \in 1..Len(s) : s[i] = Slash

SlashCount(s) == Cardinality({i \in 1..Len(s) : s[i] = Slash})

FirstSlash(s) == CHOOSE i \in 1..Len(s) :
                    s[i] = Slash /\ \A j \in 1..(i - 1) : s[j] # Slash

LastSlash(s) == CHOOSE i \in 1..Len(s) :
                    s[i] = Slash /\ \A j \in (i + 1)..Len(s) : s[j] # Slash

\* f"{a}/{b}"
Join(a, b) == a \o <<Slash>> \o b

\* s.endswith(suffix)
EndsWith(s, suffix) ==
    /\ Len(s) >= Len(suffix)
    /\ SubSeq(s, Len(s) - Len(suffix) + 1, Len(s)) = suffix

\* s.split("/")[-1]
LastPart(s) == IF HasSlash(s) THEN SubSeq(s, LastSlash(s) + 1, Len(s)) ELSE s

\* ----------------------------------------------------------- CatalogFetcher
\* the generateToken endpoint of the portal, as a log entry
TokenEndpoint == <<"generateToken">>

\* outcomes of a GET: 200 with the endpoint's payload, 200 with an error
\* payload, 200 with a JSON body that is not an object (null), another
\* status, an exception (timeout, connection failure, a body that is not JSON)
GetOutcomes == {"ok", "error_payload", "null_body", "http_error", "exception"}

\* call_arcgis_api: the returned value
ApiResult(outcome, payload) ==
    IF outcome = "ok" THEN payload
    ELSE IF outcome = "null_body" THEN [kind |-> "null"]
    ELSE [kind |-> "error", error |-> outcome]

\* "services" in result, "error" in result: the test raises TypeError when
\* result is None
Raises(r) == r.kind = "null"

\* except Exception as e: return {"error": str(e)}
Caught == [kind |-> "error", error |-> "exception"]

\* "error" in result
HasError(r) == r.kind = "error"

\* "services" in result / "folders" in result
HasListing(r) == r.kind = "listing"

\* service["folder"] = folder for the services of a folder listing, and
\* service.get("folder", "") for those of the root listing
Tagged(entries, f) ==
    [i \in 1..Len(entries) |->
        [name |-> entries[i].name, type |-> entries[i].type, folder |-> f]]

\* list_services where a folder whose listing fails discards the catalog
AfterFolderDropping(acc, f, folder_result) ==
    IF HasListing(folder_result)
    THEN acc \o Tagged(folder_result.services, f)
    ELSE << >>

\* list_services: all_services after the listing call of folder f
AfterFolder(acc, f, folder_result) ==
    IF HasListing(folder_result)
    THEN acc \o Tagged(folder_result.services, f)
    ELSE acc

\* list_services: the returned dict
ListResult(services) ==
    [kind |-> "catalog", services |-> services, count |-> Len(services)]

\* what the operation returns when list_services has raised inside its try:
\* list_services returns {"error": str(e)}, of which get_service_details
\* makes {"error": "Failed to get services list"}
ListFailed(operation) ==
    IF operation \in {"list", "list_categorized"}
    THEN Caught
    ELSE [kind |-> "error", error |-> "list_failed"]

\* ----------------------------------------------------------- classification
\* (ArcGISFastAPIServer)
\* The characters of the words that names are made of; a word that is not
\* listed is spelled as one character of its own.
Spelling(w) ==
    CASE w = "TouristAttractions" ->
          <<"T", "o", "u", "r", "i", "s", "t", "A", "t", "t", "r", "a",
            "c", "t", "i", "o", "n", "s">>
      [] w = "Hosted" ->
          <<"H", "o", "s", "t", "e", "d">>
      [] w = "Roads" ->
          <<"R", "o", "a", "d", "s">>
      [] w = "MyCustomApp" ->
          <<"M", "y", "C", "u", "s", "t", "o", "m", "A", "p", "p">>
      [] w = "Utilities" ->
          <<"U", "t", "i", "l", "i", "t", "i", "e", "s">>
      [] w = "Geometry" ->
          <<"G", "e", "o", "m", "e", "t", "r", "y">>
      [] w = "GeocodeServer" ->
          <<"G", "e", "o", "c", "o", "d", "e", "S", "e", "r", "v", "e", "r">>
      [] w = "PrintingTools" ->
          <<"P", "r", "i", "n", "t", "i", "n", "g", "T", "o", "o", "l", "s">>
      [] w = "TileCache" ->
          <<"T", "i", "l", "e", "C", "a", "c", "h", "e">>
      [] w = "Unknown" ->
          <<"U", "n", "k", "n", "o", "w", "n">>
      [] OTHER -> <<w>>

\* the characters of a name
RECURSIVE Letters(_)
Letters(name) ==
    IF name = << >> THEN << >>
    ELSE Spelling(Head(name)) \o Letters(Tail(name))

UpperCase ==
    <<"A", "B", "C", "D", "E", "F", "G", "H", "I", "J", "K", "L", "M", "N",
    "O", "P", "Q", "R", "S", "T", "U", "V", "W", "X", "Y", "Z">>

LowerCase ==
    <<"a", "b", "c", "d", "e", "f", "g", "h", "i", "j", "k", "l", "m", "n",
    "o", "p", "q", "r", "s", "t", "u", "v", "w", "x", "y", "z">>

\* s.lower() for a string spelled s
Lower(s) ==
    [i \in 1..Len(s) |->
        IF \E k \in 1..Len(UpperCase) : UpperCase[k] = s[i]
        THEN LowerCase[CHOOSE k \in 1..Len(UpperCase) : UpperCase[k] = s[i]]
        ELSE s[i]]

\* pattern in s
Contains(s, pattern) ==
    \E i \in 0..(Len(s) - Len(pattern)) :
        SubSeq(s, i + 1, i + Len(pattern)) = pattern

\* _is_system_service: system_folders, system_types, system_patterns
system_folders == { <<"System">>, <<"Utilities">> }

system_types == { "GPServer", "SymbolServer" }

system_patterns ==
    { <<"c", "a", "c", "h", "i", "n", "g">>,
      <<"c", "a", "c", "h", "e">>,
      <<"t", "o", "o", "l", "s">>,
      <<"u", "t", "i", "l", "i", "t", "i", "e", "s">>,
      <<"u", "t", "i", "l", "i", "t", "y">>,
      <<"s", "y", "s", "t", "e", "m">>,
      <<"a", "d", "m", "i", "n">>,
      <<"m", "a", "n", "a", "g", "e", "m", "e", "n", "t">>,
      <<"c", "o", "n", "t", "r", "o", "l", "l", "e", "r">>,
      <<"s", "e", "r", "v", "i", "c", "e">>,
      <<"g", "e", "o", "c", "o", "d", "i", "n", "g">>,
      <<"p", "r", "i", "n", "t", "i", "n", "g">>,
      <<"r", "a", "s", "t", "e", "r">>,
      <<"s", "y", "m", "b", "o", "l">>,
      <<"o", "f", "f", "l", "i", "n", "e">>,
      <<"p", "a", "c", "k", "a", "g", "i", "n", "g">>,
      <<"s", "y", "n", "c">>,
      <<"v", "a", "l", "i", "d", "a", "t", "i", "o", "n">>,
      <<"v", "e", "r", "s", "i", "o", "n">>,
      <<"t", "o", "p", "o", "g", "r", "a", "p", "h", "i", "c">>,
      <<"p", "r", "o", "d", "u", "c", "t", "i", "o", "n">>,
      <<"n", "e", "t", "w", "o", "r", "k">>,
      <<"l", "o", "c", "a", "t", "i", "o", "n">>,
      <<"r", "e", "f", "e", "r", "e", "n", "c", "i", "n", "g">>,
      <<"p", "a", "r", "c", "e", "l">>,
      <<"f", "a", "b", "r", "i", "c">>,
      <<"p", "u", "b", "l", "i", "s", "h", "i", "n", "g">>,
      <<"r", "e", "p", "o", "r", "t", "i", "n", "g">>,
      <<"s", "c", "e", "n", "e">>,
      <<"s", "p", "a", "t", "i", "a", "l">>,
      <<"a", "n", "a", "l", "y", "s", "i", "s">> }

\* _is_system_service
IsSystemService(sname, fold, service_type) ==
    \/ fold \in system_folders
    \/ service_type \in system_types
    \/ LET service_lower == Lower(Letters(sname))
       IN  \E pattern \in system_patterns : Contains(service_lower, pattern)

\* _is_hosted_service: hosted_types, hosted_patterns
hosted_types == { "FeatureServer", "MapServer" }

hosted_patterns ==
    { <<"h", "o", "s", "t", "e", "d">>,
      <<"g", "d", "b">>,
      <<"d", "a", "t", "a", "b", "a", "s", "e">>,
      <<"f", "e", "a", "t", "u", "r", "e">>,
      <<"m", "a", "p">>,
      <<"l", "a", "y", "e", "r">>,
      <<"d", "a", "t", "a">> }

\* _is_hosted_service
IsHostedService(sname, fold, service_type) ==
    \/ fold = <<"Hosted">>
    \/ service_type \in hosted_types /\ fold = <<"Hosted">>
    \/ LET service_lower == Lower(Letters(sname))
       IN  \E pattern \in hosted_patterns :
              Contains(service_lower, pattern) /\ fold = <<"Hosted">>

\* list_services testing the hosted rule before the system rule
CategoryHostedFirst(sname, fold, service_type) ==
    IF IsHostedService(sname, fold, service_type) THEN "hosted"
    ELSE IF IsSystemService(sname, fold, service_type) THEN "system"
    ELSE "custom"

\* list_services: service["category"]
Category(sname, fold, service_type) ==
    IF IsSystemService(sname, fold, service_type) THEN "system"
    ELSE IF IsHostedService(sname, fold, service_type) THEN "hosted"
    ELSE "custom"

\* ArcGISFastAPIServer.list_services: the entries after the categorizing
\* loop.  The entries are the dicts of the listings themselves: those of a
\* folder listing were given their "folder", those of the root listing have
\* none (service.get("folder", "") reads "" for them).
Categorized(services) ==
    [i \in 1..Len(services) |->
        LET cat == Category(services[i].name, services[i].folder,
                            services[i].type)
        IN  IF services[i].folder = << >>
            THEN [name |-> services[i].name, type |-> services[i].type,
                  category |-> cat]
            ELSE [name |-> services[i].name, type |-> services[i].type,
                  folder |-> services[i].folder, category |-> cat]]

\* [s for s in all_services if s.get("category") == c]
OfCategory(services, c) ==
    LET Is(s) == s.category = c
    IN  SelectSeq(services, Is)

\* ArcGISFastAPIServer.list_services: the returned dict
CategorizedResult(services) ==
    LET categorized == Categorized(services)
    IN  [kind |-> "catalog", services |-> categorized,
         count |-> Len(categorized),
         categorized |->
           [system |-> OfCategory(categorized, "system"),
            hosted |-> OfCategory(categorized, "hosted"),
            custom |-> OfCategory(categorized, "custom")],
         summary |->
           [system_services |-> Len(OfCategory(categorized, "system")),
            hosted_services |-> Len(OfCategory(categorized, "hosted")),
            custom_services |-> Len(OfCategory(categorized, "custom"))]]

\* ---------------------------------------------------------- ServiceResolver
NoHit(sname, fold) ==
    [hit |-> FALSE, name |-> sname, folder |-> fold, tier |-> "none"]

\* get_service_details: the body of the loop for one catalog entry
MatchService(service, sname, fold) ==
    LET service_name_from_list == service.name
        service_folder_from_list == service.folder
        two_parts == SlashCount(sname) = 1
        input_folder == SubSeq(sname, 1, FirstSlash(sname) - 1)
        input_service_name == SubSeq(sname, FirstSlash(sname) + 1, Len(sname))
    IN  IF /\ two_parts
           /\ service_name_from_list = Join(input_folder, input_service_name)
           /\ service_folder_from_list = input_folder
        THEN [hit |-> TRUE, name |-> input_service_name,
              folder |-> input_folder, tier |-> "path"]
        ELSE IF /\ service_name_from_list = sname
                /\ service_folder_from_list = fold
        THEN [hit |-> TRUE, name |-> sname, folder |-> fold, tier |-> "a"]
        ELSE IF /\ service_name_from_list = Join(fold, sname)
                /\ service_folder_from_list = fold
        THEN [hit |-> TRUE, name |-> sname, folder |-> fold, tier |-> "b"]
        ELSE IF /\ service_name_from_list = sname
                /\ fold = << >>
                /\ service_folder_from_list = << >>
        THEN [hit |-> TRUE, name |-> sname, folder |-> fold, tier |-> "c"]
        ELSE IF /\ EndsWith(service_name_from_list, <<Slash>> \o sname)
                /\ service_folder_from_list = fold
        THEN [hit |-> TRUE, name |-> LastPart(service_name_from_list),
              folder |-> fold, tier |-> "d"]
        ELSE NoHit(sname, fold)

NoMatch(sname, fold) ==
    [found |-> FALSE, idx |-> 0, name |-> sname, folder |-> fold,
     type |-> "", tier |-> "none"]

\* get_service_details where a name that no entry matches is looked up as a
\* MapServer of that name (matching_service.get("type", "MapServer"))
ResolveFromGuessing(services, i, sname, fold) ==
    [found |-> TRUE, idx |-> 0, name |-> sname, folder |-> fold,
     type |-> "MapServer", tier |-> "none"]

\* get_service_details: the loop over the catalog, from entry i on
RECURSIVE ResolveFrom(_, _, _, _)
ResolveFrom(services, i, sname, fold) ==
    IF i > Len(services) THEN NoMatch(sname, fold)
    ELSE LET m == MatchService(services[i], sname, fold)
         IN  IF m.hit
             THEN [found |-> TRUE, idx |-> i, name |-> m.name,
                   folder |-> m.folder, type |-> services[i].type,
                   tier |-> m.tier]
             ELSE ResolveFrom(services, i + 1, sname, fold)

Resolve(services, sname, fold) == ResolveFrom(services, 1, sname, fold)

\* get_service_details building the endpoint without the folder
ServiceEndpointNoFolder(fold, name, type) == name \o <<Slash, type>>

\* get_service_details: the endpoint of the metadata call
ServiceEndpoint(fold, name, type) ==
    IF fold # << >>
    THEN fold \o <<Slash>> \o name \o <<Slash, type>>
    ELSE name \o <<Slash, type>>

\* ------------------------------------------------------------- QueryBuilder
\* str(n) and f"{n}" for the numbers that occur, f"{None}" included
Str(n) ==
    CASE n = 0 -> "0"
      [] n = 1 -> "1"
      [] n = 5 -> "5"
      [] n = 10 -> "10"
      [] n = 500 -> "500"
      [] n = DefaultMaxRecordCount -> "1000"
      [] n = None -> "None"
      [] OTHER -> "n"

\* query_service_layer emitting maxRecordCount next to resultRecordCount
RecordCountKeysBoth(rrc, mrc) ==
    IF rrc # None /\ rrc > 0
    THEN {"resultRecordCount", "maxRecordCount"}
    ELSE {"maxRecordCount"}

\* query_service_layer: the record count limit that is set in query_params
RecordCountKeys(rrc, mrc) ==
    IF rrc # None /\ rrc > 0 THEN {"resultRecordCount"} ELSE {"maxRecordCount"}

\* query_service_layer passing the where clause on as it was given
WhereParamAsGiven(w) == w

\* query_service_layer: where if where else "1=1"
WhereParam(w) == IF w # "" THEN w ELSE "1=1"

\* the optional arguments besides the counts and the offset
OptionalArgs ==
    { "object_ids", "geometry", "order_by_fields",
      "group_by_fields_for_statistics", "out_statistics" }

\* query_service_layer: the parameters set for the optional arguments that
\* were given with a value
OptionalKeys(prov) ==
    (IF "object_ids" \in prov THEN {"objectIds"} ELSE {})
    \cup (IF "geometry" \in prov
          THEN {"geometry", "geometryType", "spatialRel"} ELSE {})
    \cup (IF "order_by_fields" \in prov THEN {"orderByFields"} ELSE {})
    \cup (IF "group_by_fields_for_statistics" \in prov
          THEN {"groupByFieldsForStatistics"} ELSE {})
    \cup (IF "out_statistics" \in prov THEN {"outStatistics"} ELSE {})

\* query_service_layer: query_params as sent, for a call that leaves
\* out_fields and the return_* flags at their defaults
QueryParams(w, rrc, mrc, off, prov, token) ==
    LET mrc_or_default == IF mrc = None THEN DefaultMaxRecordCount ELSE mrc
        keys ==
          { "f", "where", "outFields", "returnGeometry", "returnIdsOnly",
            "returnCountOnly", "returnDistinctValues", "returnExtentOnly" }
          \cup RecordCountKeys(rrc, mrc)
          \cup OptionalKeys(prov)
          \cup (IF off # None /\ off > 0 THEN {"resultOffset"} ELSE {})
          \cup (IF token # NoToken THEN {"token"} ELSE {})
    IN  [k \in keys |->
           CASE k = "f" -> "json"
             [] k = "where" -> WhereParam(w)
             [] k = "outFields" -> "*"
             [] k = "returnGeometry" -> "true"
             [] k = "resultRecordCount" -> Str(rrc)
             [] k = "maxRecordCount" -> Str(mrc_or_default)
             [] k = "resultOffset" -> Str(off)
             [] k = "token" -> token
             [] k \in OptionalKeys(prov) -> "given"
             [] OTHER -> "false"]

\* query_service_layer: query_endpoint
QueryEndpoint(fold, name, type, lid) ==
    LET layer == IF lid = None THEN 0 ELSE lid
    IN  ServiceEndpoint(fold, name, type) \o <<Slash, Str(layer), Slash, "query">>

\* get_layer_info: layer_endpoint
LayerEndpoint(fold, name, type, lid) ==
    ServiceEndpoint(fold, name, type) \o <<Slash, Str(lid)>>

\* query_service_layer, get_layer_info: what is returned after the GET.  A
\* body that is not an object makes result["query_metadata"] = ... raise,
\* and the except clause returns {"error": str(e)}.
LayerResult(outcome, metadata) ==
    CASE outcome = "ok" -> [kind |-> "layer", metadata |-> metadata]
      [] outcome = "error_payload" ->
           [kind |-> "error", error |-> outcome, metadata |-> metadata]
      [] outcome = "http_error" ->
           [kind |-> "error", error |-> outcome, details |-> "response.text"]
      [] OTHER -> Caught

\* ------------------------------------------------------------ the GIS server
Hosted == <<"Hosted">>
Utilities == <<"Utilities">>
TouristAttractions == <<"TouristAttractions">>
HostedTouristAttractions == <<"Hosted", "/", "TouristAttractions">>

HostedEntries ==
    { [name |-> TouristAttractions, type |-> "FeatureServer"],
      [name |-> TouristAttractions, type |-> "MapServer"],
      [name |-> HostedTouristAttractions, type |-> "MapServer"],
      [name |-> <<"Roads">>, type |-> "MapServer"] }

RootListings ==
    { << >>, <<[name |-> <<"MyCustomApp">>, type |-> "MapServer"]>> }

UtilitiesListing ==
    <<[name |-> <<"Utilities", "/", "Geometry">>, type |-> "GeometryServer"]>>

FolderLists == { << >>, <<Hosted>>, <<Hosted, Utilities>> }

SeqsUpTo(S, n) == UNION { [1..k -> S] : k \in 0..n }

Backends ==
    { [root |-> r, folders |-> fs, hosted |-> h] :
        r \in RootListings, fs \in FolderLists,
        h \in SeqsUpTo(HostedEntries, MaxFolderSvc) }

\* what the server lists at the root and in folder f
RootPayload(b) == [kind |-> "listing", services |-> b.root, folders |-> b.folders]

FolderPayload(b, f) ==
    [kind |-> "listing",
     services |-> IF f = Hosted THEN b.hosted ELSE UtilitiesListing,
     folders |-> << >>]

\* the names and folders get_service_details is called with
NameInputs == { TouristAttractions, HostedTouristAttractions, <<"Unknown">> }
FolderInputs == { << >>, Hosted }

\* the services the categorizing loop is run on
ClassNames ==
    { <<"GeocodeServer">>, TouristAttractions, <<"MyCustomApp">>,
      <<"PrintingTools">>, <<"TileCache">>, HostedTouristAttractions,
      <<"Roads">> }
ClassFolders == { << >>, Hosted, <<"System">>, Utilities, <<"Parks">> }
ClassTypes ==
    { "MapServer", "FeatureServer", "GPServer", "SymbolServer",
      "GeocodeServer" }

NoBackend == [root |-> << >>, folders |-> << >>, hosted |-> << >>]
NoResult == [kind |-> "none"]
NoParams == << >>
NoService == [name |-> << >>, type |-> "", folder |-> << >>, category |-> ""]

\* ------------------------------------------------------------------- Init
InitToken ==
    /\ portal_token = NoToken
    /\ token_expires_at = NoExpiry
    /\ now = 0
    /\ issued = 0
    /\ expiry_token = NoToken

InitCallers ==
    /\ pc = [c \in Callers |-> "idle"]
    /\ op = [c \in Callers |-> "none"]
    /\ ens_reqs = [c \in Callers |-> 0]
    /\ ens_ok = [c \in Callers |-> FALSE]
    /\ req = [c \in Callers |-> NoToken]
    /\ ret = [c \in Callers |-> NoToken]
    /\ sent_token = [c \in Callers |-> NoToken]
    /\ result = [c \in Callers |-> "none"]

InitClient ==
    /\ cpc = "idle"
    /\ c_op = "none"
    /\ service_name = << >>
    /\ folder = << >>
    /\ folders_left = << >>
    /\ all_services = << >>
    /\ failed = {}
    /\ log = << >>
    /\ matching_service = NoMatch(<< >>, << >>)
    /\ c_result = NoResult

InitQuery ==
    /\ response = NoResult
    /\ layer_id = 0
    /\ where = ""
    /\ result_record_count = None
    /\ max_record_count = None
    /\ result_offset = None
    /\ provided = {}
    /\ query_params = NoParams

\* the process that runs the client: every variable set, the client built
AllSet == [v \in {"ARCGIS_SERVER_URL", "ARCGIS_PORTAL_URL", "MCP_USERNAME",
                  "MCP_PASSWORD"} |-> "set"]
NoResponse == [status |-> 0]

InitServing ==
    /\ environ = AllSet
    /\ server_module = "main"
    /\ process = "serving"
    /\ arcgis_server = "client"
    /\ http_response = NoResponse

\* no tool is being created
NotCreated == [not_created |-> TRUE]
InitNoTool ==
    /\ agent_module = "arcgis_agent"
    /\ pydantic = 2
    /\ parameters = << >>
    /\ fields = NotCreated
    /\ annotations = NotCreated
    /\ schema = NotCreated

\* ArcGISLangChainAgent.__init__, no request being served
InitAgent ==
    /\ initialized = FALSE
    /\ tools = << >>
    /\ function_info = << >>
    /\ current_tools_used = << >>
    /\ discoveries = 0
    /\ a_kind = [r \in Callers |-> "none"]
    /\ apc = [r \in Callers |-> "idle"]
    /\ invoked = [r \in Callers |-> << >>]
    /\ tools_used = [r \in Callers |-> << >>]

InitExt == InitServing /\ InitNoTool /\ InitAgent

\* the client before any call, against no server
InitCore ==
    /\ InitToken /\ InitCallers /\ InitClient /\ InitQuery
    /\ backend = NoBackend
    /\ classified = NoService

Init ==
    /\ InitToken /\ InitCallers /\ InitClient /\ InitQuery /\ InitExt
    /\ backend = NoBackend
    /\ classified = NoService

InitCatalog ==
    /\ InitToken /\ InitCallers /\ InitClient /\ InitQuery /\ InitExt
    /\ backend \in Backends
    /\ classified = NoService

InitClassify ==
    /\ InitToken /\ InitCallers /\ InitClient /\ InitQuery /\ InitExt
    /\ backend = NoBackend
    /\ classified \in
         { [name |-> n, type |-> t, folder |-> f, category |-> ""] :
             n \in ClassNames, t \in ClassTypes, f \in ClassFolders }

\* ---------------------------------------------------------------- actions

\* call_arcgis_api(endpoint, use_token=True) up to its first await:
\* _ensure_valid_token either returns True at once (cached token) and the GET
\* is sent, or the generateToken POST is sent.
StartApi(c) ==
    /\ pc[c] = "idle"
    /\ op' = [op EXCEPT ![c] = "api"]
    /\ result' = [result EXCEPT ![c] = "none"]
    /\ ret' = [ret EXCEPT ![c] = NoToken]
    /\ IF IsTokenExpired(portal_token, token_expires_at, now)
       THEN /\ issued < MaxIssued
            /\ issued' = issued + 1
            /\ req' = [req EXCEPT ![c] = issued + 1]
            /\ ens_reqs' = [ens_reqs EXCEPT ![c] = 1]
            /\ ens_ok' = [ens_ok EXCEPT ![c] = FALSE]
            /\ sent_token' = [sent_token EXCEPT ![c] = NoToken]
            /\ pc' = [pc EXCEPT ![c] = "post"]
       ELSE /\ issued' = issued
            /\ req' = [req EXCEPT ![c] = NoToken]
            /\ ens_reqs' = [ens_reqs EXCEPT ![c] = 0]
            /\ ens_ok' = [ens_ok EXCEPT ![c] = TRUE]
            /\ sent_token' = [sent_token EXCEPT ![c] = portal_token]
            /\ pc' = [pc EXCEPT ![c] = "get"]
    /\ UNCHANGED <<portal_token, token_expires_at, now, expiry_token>>
    /\ UNCHANGED <<catVars, response, queryVars, classified, extVars>>

\* get_portal_token() called directly (test_connection, /get-portal-token)
StartDirect(c) ==
    /\ pc[c] = "idle"
    /\ issued < MaxIssued
    /\ op' = [op EXCEPT ![c] = "direct"]
    /\ issued' = issued + 1
    /\ req' = [req EXCEPT ![c] = issued + 1]
    /\ ens_reqs' = [ens_reqs EXCEPT ![c] = 1]
    /\ ens_ok' = [ens_ok EXCEPT ![c] = FALSE]
    /\ ret' = [ret EXCEPT ![c] = NoToken]
    /\ sent_token' = [sent_token EXCEPT ![c] = NoToken]
    /\ result' = [result EXCEPT ![c] = "none"]
    /\ pc' = [pc EXCEPT ![c] = "post"]
    /\ UNCHANGED <<portal_token, token_expires_at, now, expiry_token>>
    /\ UNCHANGED <<catVars, response, queryVars, classified, extVars>>

\* get_portal_token: the POST completes; the token is stored on success; the
\* coroutine then leaves "async with httpx.AsyncClient" (an await).
TokenResponse(c) ==
    /\ pc[c] = "post"
    /\ \E outcome \in TokenOutcomes :
         /\ portal_token' = TokenAfterResponse(outcome, portal_token, req[c])
         /\ ret' = [ret EXCEPT ![c] = TokenReturned(outcome, req[c])]
    /\ pc' = [pc EXCEPT ![c] = "closing"]
    /\ UNCHANGED <<token_expires_at, now, issued, expiry_token,
                   op, ens_reqs, ens_ok, req, sent_token, result>>
    /\ UNCHANGED <<catVars, response, queryVars, classified, extVars>>

\* get_portal_token returns.  Under _ensure_valid_token the expiry is stored
\* if a token came back, and call_arcgis_api goes on to send its GET with
\* whatever token is cached, whatever _ensure_valid_token returned.
Returned(c) ==
    /\ pc[c] = "closing"
    /\ IF op[c] = "api"
       THEN /\ IF ret[c] # NoToken
               THEN /\ token_expires_at' = now + LifetimeMinutes
                    /\ expiry_token' = ret[c]
                    /\ ens_ok' = [ens_ok EXCEPT ![c] = TRUE]
               ELSE /\ UNCHANGED <<token_expires_at, expiry_token>>
                    /\ ens_ok' = [ens_ok EXCEPT ![c] = FALSE]
            /\ sent_token' = [sent_token EXCEPT ![c] = portal_token]
            /\ result' = result
            /\ pc' = [pc EXCEPT ![c] = "get"]
       ELSE /\ UNCHANGED <<token_expires_at, expiry_token, ens_ok, sent_token>>
            /\ result' = [result EXCEPT ![c] =
                            IF ret[c] # NoToken THEN "ok" ELSE "error"]
            /\ pc' = [pc EXCEPT ![c] = "done"]
    /\ req' = [req EXCEPT ![c] = NoToken]
    /\ ret' = [ret EXCEPT ![c] = NoToken]
    /\ UNCHANGED <<portal_token, now, issued, op, ens_reqs>>
    /\ UNCHANGED <<catVars, response, queryVars, classified, extVars>>

\* call_arcgis_api: the GET completes with 200 or with another status or an
\* exception, which both give {"error": ...}
GetResponse(c) ==
    /\ pc[c] = "get"
    /\ \E r \in {"ok", "error"} : result' = [result EXCEPT ![c] = r]
    /\ pc' = [pc EXCEPT ![c] = "done"]
    /\ sent_token' = [sent_token EXCEPT ![c] = NoToken]
    /\ UNCHANGED <<tokenVars, op, ens_reqs, ens_ok, req, ret>>
    /\ UNCHANGED <<catVars, response, queryVars, classified, extVars>>

\* the caller takes the result
Finish(c) ==
    /\ pc[c] = "done"
    /\ pc' = [pc EXCEPT ![c] = "idle"]
    /\ op' = [op EXCEPT ![c] = "none"]
    /\ ens_reqs' = [ens_reqs EXCEPT ![c] = 0]
    /\ ens_ok' = [ens_ok EXCEPT ![c] = FALSE]
    /\ req' = [req EXCEPT ![c] = NoToken]
    /\ ret' = [ret EXCEPT ![c] = NoToken]
    /\ sent_token' = [sent_token EXCEPT ![c] = NoToken]
    /\ result' = [result EXCEPT ![c] = "none"]
    /\ UNCHANGED tokenVars
    /\ UNCHANGED <<catVars, response, queryVars, classified, extVars>>

\* time passes: the clock moves to the next refresh boundary
Tick ==
    /\ now + TickMinutes <= MaxTime
    /\ now' = now + TickMinutes
    /\ UNCHANGED <<portal_token, token_expires_at, issued, expiry_token, callerVars>>
    /\ UNCHANGED <<catVars, response, queryVars, classified, extVars>>

Next ==
    \/ \E c \in Callers : StartApi(c)
    \/ \E c \in Callers : StartDirect(c)
    \/ \E c \in Callers : TokenResponse(c)
    \/ \E c \in Callers : Returned(c)
    \/ \E c \in Callers : GetResponse(c)
    \/ \E c \in Callers : Finish(c)
    \/ Tick

Spec == Init /\ [][Next]_vars

\* --------------------------------------------- actions of the catalog client

\* what the log keeps of the outcome of a request: answered with its payload,
\* answered with a body that is not an object, or failed
Answer(outcome) ==
    IF outcome = "ok" THEN "ok"
    ELSE IF outcome = "null_body" THEN "null_body"
    ELSE "failed"

\* _ensure_valid_token and the GET of call_arcgis_api(endpoint, use_token=True),
\* run by the only coroutine: the token fields and the requests sent
ApiCall(endpoint, tokenOutcome, outcome) ==
    /\ IF IsTokenExpired(portal_token, token_expires_at, now)
       THEN /\ issued < MaxIssued
            /\ issued' = issued + 1
            /\ portal_token' =
                 TokenAfterResponse(tokenOutcome, portal_token, issued + 1)
            /\ IF TokenReturned(tokenOutcome, issued + 1) # NoToken
               THEN /\ token_expires_at' = now + LifetimeMinutes
                    /\ expiry_token' = issued + 1
               ELSE UNCHANGED <<token_expires_at, expiry_token>>
            /\ log' = log \o <<[ep |-> TokenEndpoint, token |-> NoToken,
                                outcome |-> Answer(tokenOutcome),
                                expiration |-> RefreshExpiration],
                               [ep |-> endpoint, token |-> portal_token',
                                outcome |-> Answer(outcome)]>>
       ELSE /\ UNCHANGED <<portal_token, token_expires_at, issued, expiry_token>>
            /\ log' = Append(log, [ep |-> endpoint, token |-> portal_token,
                                    outcome |-> Answer(outcome)])
    /\ UNCHANGED <<now, callerVars, backend>>

\* list_services() is called
StartList ==
    /\ cpc = "idle"
    /\ cpc' = "root"
    /\ c_op' = "list"
    /\ UNCHANGED <<tokenVars, callerVars, backend, service_name, folder,
                   folders_left, all_services, failed, log, matching_service,
                   c_result>>
    /\ UNCHANGED <<response, queryVars, classified, extVars>>

\* ArcGISFastAPIServer.list_services() is called
StartListCategorized ==
    /\ cpc = "idle"
    /\ cpc' = "root"
    /\ c_op' = "list_categorized"
    /\ UNCHANGED <<tokenVars, callerVars, backend, service_name, folder,
                   folders_left, all_services, failed, log, matching_service,
                   c_result>>
    /\ UNCHANGED <<response, queryVars, classified, extVars>>

\* get_service_details(service_name, folder) is called; folder = folder or ""
StartDetails(sname, fold) ==
    /\ cpc = "idle"
    /\ cpc' = "root"
    /\ c_op' = "details"
    /\ service_name' = sname
    /\ folder' = fold
    /\ UNCHANGED <<tokenVars, callerVars, backend, folders_left, all_services,
                   failed, log, matching_service, c_result>>
    /\ UNCHANGED <<response, queryVars, classified, extVars>>

\* list_services: the root listing call
CallRoot ==
    /\ cpc = "root"
    /\ \E tokenOutcome \in TokenOutcomes, outcome \in GetOutcomes :
         LET root_result == ApiResult(outcome, RootPayload(backend))
         IN  /\ ApiCall(<< >>, tokenOutcome, outcome)
             /\ all_services' =
                  IF HasListing(root_result)
                  THEN Tagged(root_result.services, << >>) ELSE << >>
             /\ folders_left' =
                  IF HasListing(root_result) THEN root_result.folders ELSE << >>
             /\ failed' = IF outcome = "ok" THEN {} ELSE {<< >>}
             /\ IF Raises(root_result)
                THEN /\ cpc' = "done"
                     /\ c_result' = ListFailed(c_op)
                ELSE /\ cpc' = "folders"
                     /\ c_result' = c_result
    /\ UNCHANGED <<c_op, service_name, folder, matching_service>>
    /\ UNCHANGED <<response, queryVars, classified, extVars>>

\* list_services: the listing call of the next folder
CallFolder ==
    /\ cpc = "folders"
    /\ folders_left # << >>
    /\ \E tokenOutcome \in TokenOutcomes, outcome \in GetOutcomes :
         LET f == Head(folders_left)
             folder_result == ApiResult(outcome, FolderPayload(backend, f))
         IN  /\ ApiCall(f, tokenOutcome, outcome)
             /\ all_services' = AfterFolder(all_services, f, folder_result)
             /\ failed' = IF outcome = "ok" THEN failed ELSE failed \cup {f}
             /\ IF Raises(folder_result)
                THEN /\ cpc' = "done"
                     /\ c_result' = ListFailed(c_op)
                     /\ folders_left' = << >>
                ELSE /\ cpc' = cpc
                     /\ c_result' = c_result
                     /\ folders_left' = Tail(folders_left)
    /\ UNCHANGED <<c_op, service_name, folder, matching_service>>
    /\ UNCHANGED <<response, queryVars, classified, extVars>>

\* list_services returns to its caller
EndList ==
    /\ cpc = "folders"
    /\ folders_left = << >>
    /\ c_op = "list"
    /\ c_result' = ListResult(all_services)
    /\ cpc' = "done"
    /\ UNCHANGED <<tokenVars, callerVars, backend, c_op, service_name, folder,
                   folders_left, all_services, failed, log, matching_service>>
    /\ UNCHANGED <<response, queryVars, classified, extVars>>

\* ArcGISFastAPIServer.list_services categorizes and returns to its caller
EndListCategorized ==
    /\ cpc = "folders"
    /\ folders_left = << >>
    /\ c_op = "list_categorized"
    /\ c_result' = CategorizedResult(all_services)
    /\ cpc' = "done"
    /\ UNCHANGED <<tokenVars, callerVars, backend, c_op, service_name, folder,
                   folders_left, all_services, failed, log, matching_service>>
    /\ UNCHANGED <<response, queryVars, classified, extVars>>

\* get_service_details: list_services has returned; the resolver loop runs and
\* either the error is returned or the metadata call is next
ResolveService ==
    /\ cpc = "folders"
    /\ folders_left = << >>
    /\ c_op \in {"details", "query", "layer_info"}
    /\ LET services == ListResult(all_services).services
           m == Resolve(services, service_name, folder)
       IN  /\ matching_service' = m
           /\ IF m.found
              THEN /\ cpc' = "meta"
                   /\ c_result' = c_result
              ELSE /\ cpc' = "done"
                   /\ c_result' = [kind |-> "error", error |-> "not_found",
                                   name |-> m.name, folder |-> m.folder]
    /\ UNCHANGED <<tokenVars, callerVars, backend, c_op, service_name, folder,
                   folders_left, all_services, failed, log>>
    /\ UNCHANGED <<response, queryVars, classified, extVars>>

\* query_service_layer, get_layer_info going on to the layer request
\* whatever get_service_details returned
AfterMetaUnchecked(operation, service_details) ==
    IF operation = "details" THEN "done" ELSE "layer"

\* where the operation stands when get_service_details has returned:
\* query_service_layer and get_layer_info return service_details when
\* "error" in service_details
AfterMeta(operation, service_details) ==
    IF operation = "details" \/ HasError(service_details)
    THEN "done" ELSE "layer"

\* get_service_details: the metadata call and the service_metadata added to
\* its answer
CallMeta ==
    /\ cpc = "meta"
    /\ \E tokenOutcome \in TokenOutcomes, outcome \in GetOutcomes :
         LET m == matching_service
             endpoint == ServiceEndpoint(m.folder, m.name, m.type)
             r == ApiResult(outcome, [kind |-> "service"])
         IN  /\ ApiCall(endpoint, tokenOutcome, outcome)
             /\ c_result' =
                  IF Raises(r) THEN Caught
                  ELSE IF HasError(r) THEN r
                  ELSE [kind |-> "service",
                        service_metadata |->
                          [name |-> m.name, folder |-> m.folder, type |-> m.type]]
             /\ failed' = IF outcome = "ok" THEN failed ELSE failed \cup {endpoint}
             /\ cpc' = AfterMeta(c_op, c_result')
    /\ UNCHANGED <<c_op, service_name, folder, folders_left, all_services,
                   matching_service>>
    /\ UNCHANGED <<response, queryVars, classified, extVars>>

\* the top-level keys of the dict that an operation returns
PayloadKeys(r) ==
    CASE r.kind = "catalog" ->
           IF "summary" \in DOMAIN r
           THEN {"services", "count", "categorized", "summary"}
           ELSE {"services", "count"}
      [] r.kind = "error" ->
           {"error"}
           \cup (IF "details" \in DOMAIN r THEN {"details"} ELSE {})
           \cup (IF "metadata" \in DOMAIN r THEN {"metadata"} ELSE {})
      [] r.kind = "service" -> {"service_metadata"}
      [] r.kind = "layer" -> {"metadata"}
      [] OTHER -> {}

\* the handlers of main.py (and of arcgis_fastapi_server.py for its own
\* list_services): what the endpoint answers for the result of the operation
HandlerResponse(operation, r, sname, fold) ==
    CASE operation \in {"list", "list_categorized"} ->
           [keys |-> {"services", "count"},
            services |-> r, count |-> Cardinality(PayloadKeys(r))]
      [] operation = "details" ->
           [keys |-> {"service_name", "folder", "details"},
            service_name |-> sname, folder |-> fold, details |-> r]
      [] OTHER ->
           [keys |-> PayloadKeys(r), result |-> r]

\* /list-services, /get-service-details, /get-layer-info: the handler
\* returns its response
Respond ==
    /\ cpc = "done"
    /\ c_op \in {"list", "list_categorized", "details", "layer_info"}
    /\ response' = HandlerResponse(c_op, c_result, service_name, folder)
    /\ cpc' = "responded"
    /\ UNCHANGED <<tokenVars, callerVars, backend, c_op, service_name, folder,
                   folders_left, all_services, failed, log, matching_service,
                   c_result, queryVars, classified, extVars>>

\* the caller takes the result
FinishOp ==
    /\ cpc \in {"done", "responded"}
    /\ cpc' = "idle"
    /\ c_op' = "none"
    /\ service_name' = << >>
    /\ folder' = << >>
    /\ folders_left' = << >>
    /\ all_services' = << >>
    /\ failed' = {}
    /\ log' = << >>
    /\ matching_service' = NoMatch(<< >>, << >>)
    /\ c_result' = NoResult
    /\ response' = NoResult
    /\ layer_id' = 0
    /\ where' = ""
    /\ result_record_count' = None
    /\ max_record_count' = None
    /\ result_offset' = None
    /\ provided' = {}
    /\ query_params' = NoParams
    /\ UNCHANGED <<tokenVars, callerVars, backend, classified, extVars>>

NextCatalog ==
    \/ StartList
    \/ StartListCategorized
    \/ \E sname \in NameInputs, fold \in FolderInputs : StartDetails(sname, fold)
    \/ CallRoot
    \/ CallFolder
    \/ EndList
    \/ EndListCategorized
    \/ ResolveService
    \/ CallMeta
    \/ Respond
    \/ FinishOp

SpecCatalog == InitCatalog /\ [][NextCatalog]_vars

\* ------------------------------- query_service_layer and get_layer_info

\* query_service_layer(service_name, folder, layer_id, where, ...) is called
StartQuery(sname, fold, lid, w, rrc, mrc, off, prov) ==
    /\ cpc = "idle"
    /\ cpc' = "root"
    /\ c_op' = "query"
    /\ service_name' = sname
    /\ folder' = fold
    /\ layer_id' = lid
    /\ where' = w
    /\ result_record_count' = rrc
    /\ max_record_count' = mrc
    /\ result_offset' = off
    /\ provided' = prov
    /\ UNCHANGED <<tokenVars, callerVars, backend, folders_left, all_services,
                   failed, log, matching_service, c_result, response,
                   query_params, classified, extVars>>

\* get_layer_info(service_name, folder, layer_id) is called
StartLayerInfo(sname, fold, lid) ==
    /\ cpc = "idle"
    /\ cpc' = "root"
    /\ c_op' = "layer_info"
    /\ service_name' = sname
    /\ folder' = fold
    /\ layer_id' = lid
    /\ UNCHANGED <<tokenVars, callerVars, backend, folders_left, all_services,
                   failed, log, matching_service, c_result, response, where,
                   result_record_count, max_record_count, result_offset,
                   provided, query_params, classified, extVars>>

\* query_service_layer, get_layer_info: get_service_details has returned
\* without "error"; the endpoint and the parameters are built from its
\* service_metadata, the token is checked and the GET is sent
CallLayer ==
    /\ cpc = "layer"
    /\ \E tokenOutcome \in TokenOutcomes, outcome \in GetOutcomes :
         LET service_metadata == c_result.service_metadata
             endpoint ==
               IF c_op = "query"
               THEN QueryEndpoint(service_metadata.folder,
                                  service_metadata.name,
                                  service_metadata.type, layer_id)
               ELSE LayerEndpoint(service_metadata.folder,
                                  service_metadata.name,
                                  service_metadata.type, layer_id)
             metadata ==
               [service_name |-> service_metadata.name,
                folder |-> service_metadata.folder,
                service_type |-> service_metadata.type]
         IN  /\ ApiCall(endpoint, tokenOutcome, outcome)
             /\ query_params' =
                  IF c_op = "query"
                  THEN QueryParams(where, result_record_count,
                                   max_record_count, result_offset, provided,
                                   portal_token')
                  ELSE query_params
             /\ c_result' = LayerResult(outcome, metadata)
             /\ failed' = IF outcome = "ok" THEN failed ELSE failed \cup {endpoint}
    /\ cpc' = "done"
    /\ UNCHANGED <<c_op, service_name, folder, folders_left, all_services,
                   matching_service, response, layer_id, where,
                   result_record_count, max_record_count, result_offset,
                   provided, classified, extVars>>

\* the arguments that query_service_layer and get_layer_info are called with
LayerIds == { None, 0, 1 }
WhereInputs == { "", "POP > 100" }
ResultRecordCounts == { None, 0, 10 }
MaxRecordCounts == { None, 500 }
ResultOffsets == { None, 0, 5 }
ProvidedInputs == { {}, OptionalArgs }

\* the servers that the layer operations are run against
QueryBackends ==
    { NoBackend,
      [root |-> <<[name |-> <<"MyCustomApp">>, type |-> "MapServer"]>>,
       folders |-> <<Hosted>>,
       hosted |-> <<[name |-> TouristAttractions, type |-> "FeatureServer"]>>],
      [root |-> << >>,
       folders |-> <<Hosted>>,
       hosted |-> <<[name |-> HostedTouristAttractions, type |-> "MapServer"]>>] }

InitLayerOps ==
    /\ InitToken /\ InitCallers /\ InitClient /\ InitQuery /\ InitExt
    /\ backend \in QueryBackends
    /\ classified = NoService

NextQuery ==
    \/ /\ cpc = "idle"
       /\ \E sname \in NameInputs, fold \in FolderInputs, lid \in LayerIds,
             w \in WhereInputs, rrc \in ResultRecordCounts,
             mrc \in MaxRecordCounts, off \in ResultOffsets,
             prov \in ProvidedInputs :
               StartQuery(sname, fold, lid, w, rrc, mrc, off, prov)
    \/ /\ cpc = "idle"
       /\ \E sname \in NameInputs, fold \in FolderInputs, lid \in LayerIds :
               StartLayerInfo(sname, fold, lid)
    \/ CallRoot
    \/ CallFolder
    \/ ResolveService
    \/ CallMeta
    \/ CallLayer
    \/ Respond
    \/ FinishOp

SpecQuery == InitLayerOps /\ [][NextQuery]_vars

\* -------------------------------------------- the categorizing loop, alone

\* ArcGISFastAPIServer.list_services: one turn of the loop that sets
\* service["category"]
Categorize ==
    /\ classified.category = ""
    /\ classified' =
         [classified EXCEPT !.category =
            Category(classified.name, classified.folder, classified.type)]
    /\ UNCHANGED <<tokenVars, callerVars, catVars, response, queryVars, extVars>>

NextClassify == Categorize

SpecClassify == InitClassify /\ [][NextClassify]_vars

\* ------------------------------------------------------ the serving process
\* (main.py with ArcGISClient, arcgis_fastapi_server.py with
\* ArcGISFastAPIServer)

\* required_vars, in the order of the dict: the environment variables read
RequiredVars ==
    <<"ARCGIS_SERVER_URL", "ARCGIS_PORTAL_URL", "MCP_USERNAME", "MCP_PASSWORD">>

\* the key that required_vars holds the value of variable v under
RequiredKey(module, v) ==
    IF module = "arcgis_fastapi_server" /\ v = "MCP_USERNAME"
    THEN "ARCGIS_USERNAME"
    ELSE IF module = "arcgis_fastapi_server" /\ v = "MCP_PASSWORD"
    THEN "ARCGIS_PASSWORD"
    ELSE v

\* __init__: missing_vars = [var for var, value in required_vars.items()
\* if not value]
MissingVars(module, env) ==
    LET NotValue(v) == env[v] \in {"unset", "empty"}
        missing == SelectSeq(RequiredVars, NotValue)
    IN  [i \in 1..Len(missing) |-> RequiredKey(module, missing[i])]

\* __init__: the client, or the ValueError raised
Construct(module, env) ==
    IF MissingVars(module, env) # << >>
    THEN [raised |-> TRUE, error |-> "ValueError",
          names |-> MissingVars(module, env)]
    ELSE [raised |-> FALSE]

\* the states of the variables of the environment
EnvValues == {"unset", "empty", "set"}
Environments == [{RequiredVars[i] : i \in 1..Len(RequiredVars)} -> EnvValues]
ServerModules == {"main", "arcgis_fastapi_server"}
\* the endpoints requested: one that needs no client, two that call
\* get_arcgis_server()
Endpoints == {"/", "/health", "/list-services"}

InitServe ==
    /\ InitCore /\ InitNoTool /\ InitAgent
    /\ environ \in Environments
    /\ server_module \in ServerModules
    /\ process = "loading"
    /\ arcgis_server = "None"
    /\ http_response = NoResponse

\* the module is loaded and uvicorn.run serves the app.  main.py sets
\* arcgis_server = None and builds the client on the first request that
\* needs it; arcgis_fastapi_server.py builds it while the module is loaded.
Startup ==
    /\ process = "loading"
    /\ IF server_module = "main"
       THEN /\ process' = "serving"
            /\ UNCHANGED <<arcgis_server, http_response>>
       ELSE LET c == Construct(server_module, environ)
            IN  IF c.raised
                THEN /\ process' = "exited"
                     /\ http_response' = [status |-> 0, error |-> c.error,
                                          names |-> c.names]
                     /\ UNCHANGED arcgis_server
                ELSE /\ process' = "serving"
                     /\ arcgis_server' = "client"
                     /\ UNCHANGED http_response
    /\ UNCHANGED <<coreVars, schemaVars, agentVars, environ, server_module>>

\* a request is accepted and answered.  In main.py a handler that needs the
\* client calls get_arcgis_server(), which builds the client when the global
\* is None; the ValueError of the constructor leaves the global None and
\* becomes HTTP 500 (a 200 with "unhealthy" for /health).
Request(endpoint) ==
    /\ process = "serving"
    /\ IF endpoint = "/" \/ arcgis_server # "None"
       THEN /\ http_response' = [status |-> 200, endpoint |-> endpoint]
            /\ UNCHANGED arcgis_server
       ELSE LET c == Construct(server_module, environ)
            IN  IF c.raised
                THEN /\ http_response' =
                          [status |-> IF endpoint = "/health" THEN 200 ELSE 500,
                           endpoint |-> endpoint, error |-> c.error,
                           names |-> c.names]
                     /\ UNCHANGED arcgis_server
                ELSE /\ http_response' = [status |-> 200, endpoint |-> endpoint]
                     /\ arcgis_server' = "client"
    /\ UNCHANGED <<coreVars, schemaVars, agentVars, environ, server_module,
                   process>>

NextServe ==
    \/ Startup
    \/ \E endpoint \in Endpoints : Request(endpoint)

SpecServe == InitServe /\ [][NextServe]_vars

\* ---------------------------------------------------- CapabilitySchema
\* (_create_dynamic_tool of arcgis_agent.py and of langchain_agent.py)
\* The metadata of a parameter is a record: type is a type name or "absent"
\* (no "type" key), required is "yes" (True), "no" (False) or "absent",
\* default is "absent", "null" ("default": None) or "value" (a declared
\* value that is not None).

\* param_info.get("type", "string")
ParamType(param_info) ==
    IF param_info.type = "absent" THEN "string" ELSE param_info.type

\* param_info.get("required", False)
ParamRequired(param_info) == param_info.required = "yes"

\* param_info.get("default") is not None
HasDefault(param_info) == param_info.default = "value"

\* the conversion of the type string to a Python type: langchain_agent.py
\* knows boolean and integer only
FieldType(module, param_type) ==
    CASE param_type = "boolean" -> "bool"
      [] param_type = "integer" -> "int"
      [] param_type = "array" /\ module = "arcgis_agent" -> "List"
      [] param_type = "object" /\ module = "arcgis_agent" -> "Dict"
      [] OTHER -> "str"

\* Field(...) without a default
Undefined == "Undefined"

\* the default given to an optional parameter that declares none
TypeDefault(field_type) ==
    CASE field_type = "bool" -> "False"
      [] field_type = "int" -> "0"
      [] field_type = "str" -> ""
      [] OTHER -> "None"

\* fields[param_name]: the default of the Field made for the parameter
FieldDefault(module, param_info) ==
    LET field_type == FieldType(module, ParamType(param_info))
    IN  IF ParamRequired(param_info) THEN Undefined
        ELSE IF HasDefault(param_info) THEN "declared"
        ELSE TypeDefault(field_type)

\* annotations[param_name]
Annotation(module, param_info) ==
    [type |-> FieldType(module, ParamType(param_info)),
     optional |-> ~ParamRequired(param_info)]

\* class DynamicToolInput(BaseModel): __annotations__ = annotations.  The
\* class statement makes the fields of the model from the annotations alone:
\* the body assigns no value to any name.  A field annotated Optional[...]
\* is given the default None by version 1 of the library and is required in
\* version 2; any other field is required.
ModelField(version, annotation) ==
    IF annotation.optional /\ version = 1
    THEN [required |-> FALSE, default |-> "None"]
    ELSE [required |-> TRUE, default |-> Undefined]

\* setattr(DynamicToolInput, field_name, field_def) after the class
\* statement: the Field becomes a class attribute; the fields of the model,
\* made when the class was created, stay as they are
AfterSetattr(model_fields, field_name, field_def) == model_fields

\* the model class handed to StructuredTool.from_function as args_schema
DynamicToolInput(module, version, params) ==
    [n \in DOMAIN params |->
        AfterSetattr(ModelField(version, Annotation(module, params[n])),
                     n, FieldDefault(module, params[n]))]

\* the parameter metadata that tools are created from
ParamTypes == {"boolean", "integer", "string", "array", "object", "absent"}
RequiredInputs == {"yes", "no", "absent"}
DefaultInputs == {"absent", "null", "value"}
ParamInfos ==
    [type : ParamTypes, required : RequiredInputs, default : DefaultInputs]
ParamNames == {"service_name", "layer_id"}
AgentModules == {"arcgis_agent", "langchain_agent"}
PydanticVersions == {1, 2}

InitSchema ==
    /\ InitCore /\ InitServing /\ InitAgent
    /\ agent_module \in AgentModules
    /\ pydantic \in PydanticVersions
    /\ \E names \in SUBSET ParamNames : parameters \in [names -> ParamInfos]
    /\ fields = NotCreated
    /\ annotations = NotCreated
    /\ schema = NotCreated

\* _create_dynamic_tool(function_info)
CreateDynamicTool ==
    /\ schema = NotCreated
    /\ fields' = [n \in DOMAIN parameters |->
                    FieldDefault(agent_module, parameters[n])]
    /\ annotations' = [n \in DOMAIN parameters |->
                         Annotation(agent_module, parameters[n])]
    /\ schema' = DynamicToolInput(agent_module, pydantic, parameters)
    /\ UNCHANGED <<coreVars, serveVars, agentVars, agent_module, pydantic,
                   parameters>>

NextSchema == CreateDynamicTool

SpecSchema == InitSchema /\ [][NextSchema]_vars

\* ------------------------------------------------------------- the agent
\* (arcgis_agent.py served by agent/main.py).  A request is a coroutine of
\* the event loop: another request can run wherever it awaits.

\* what GET /list-functions can be answered with: the functions of the
\* server, or nothing (another status, an exception)
ToolNames == {"list_services", "query_service_layer"}
DiscoveryResults == { << >>, <<"list_services", "query_service_layer">> }

\* if function_info["name"] not in self.current_tools_used: append
UsedAfter(used, name) ==
    IF \E i \in 1..Len(used) : used[i] = name THEN used ELSE Append(used, name)

\* POST /chat: process_message up to its first await.  An agent that is not
\* initialized starts _initialize, whose first await is the discovery
\* request; otherwise current_tools_used is emptied and the executor is
\* invoked.
StartChat(r) ==
    /\ apc[r] = "idle"
    /\ a_kind' = [a_kind EXCEPT ![r] = "chat"]
    /\ IF ~initialized
       THEN /\ discoveries' = discoveries + 1
            /\ apc' = [apc EXCEPT ![r] = "discover"]
            /\ UNCHANGED current_tools_used
       ELSE /\ current_tools_used' = << >>
            /\ apc' = [apc EXCEPT ![r] = "invoke"]
            /\ UNCHANGED discoveries
    /\ UNCHANGED <<coreVars, serveVars, schemaVars, initialized, tools,
                   function_info, invoked, tools_used>>

\* GET /tools: get_discovered_tools up to its first await
StartTools(r) ==
    /\ apc[r] = "idle"
    /\ a_kind' = [a_kind EXCEPT ![r] = "tools"]
    /\ IF ~initialized
       THEN /\ discoveries' = discoveries + 1
            /\ apc' = [apc EXCEPT ![r] = "discover"]
       ELSE /\ apc' = [apc EXCEPT ![r] = "done"]
            /\ UNCHANGED discoveries
    /\ UNCHANGED <<coreVars, serveVars, schemaVars, initialized, tools,
                   function_info, current_tools_used, invoked, tools_used>>

\* _initialize after the discovery request has answered:
\* _create_langchain_tools_dynamic stores function_info and returns the
\* tools, the executor is made and _initialized is set
Discovered(r) ==
    /\ apc[r] = "discover"
    /\ \E mcp_functions \in DiscoveryResults :
          /\ function_info' = mcp_functions
          /\ tools' = mcp_functions
    /\ initialized' = TRUE
    /\ apc' = [apc EXCEPT ![r] = IF a_kind[r] = "chat" THEN "invoke" ELSE "done"]
    /\ UNCHANGED <<coreVars, serveVars, schemaVars, current_tools_used,
                   discoveries, a_kind, invoked, tools_used>>

\* dynamic_tool_func: the executor of request r calls the tool named name
InvokeTool(r, name) ==
    /\ apc[r] = "invoke"
    /\ \E i \in 1..Len(tools) : tools[i] = name
    /\ current_tools_used' = UsedAfter(current_tools_used, name)
    /\ invoked' = [invoked EXCEPT ![r] = UsedAfter(invoked[r], name)]
    /\ UNCHANGED <<coreVars, serveVars, schemaVars, initialized, tools,
                   function_info, discoveries, a_kind, apc, tools_used>>

\* process_message after agent_executor.ainvoke has returned or raised:
\* tools_used = self.current_tools_used.copy()
EndChat(r) ==
    /\ apc[r] = "invoke"
    /\ tools_used' = [tools_used EXCEPT ![r] = current_tools_used]
    /\ apc' = [apc EXCEPT ![r] = "done"]
    /\ UNCHANGED <<coreVars, serveVars, schemaVars, initialized, tools,
                   function_info, current_tools_used, discoveries, a_kind,
                   invoked>>

\* the response has been sent
FinishRequest(r) ==
    /\ apc[r] = "done"
    /\ apc' = [apc EXCEPT ![r] = "idle"]
    /\ a_kind' = [a_kind EXCEPT ![r] = "none"]
    /\ invoked' = [invoked EXCEPT ![r] = << >>]
    /\ tools_used' = [tools_used EXCEPT ![r] = << >>]
    /\ UNCHANGED <<coreVars, serveVars, schemaVars, initialized, tools,
                   function_info, current_tools_used, discoveries>>

InitAgentSpec == InitCore /\ InitServing /\ InitNoTool /\ InitAgent

NextAgent ==
    \/ \E r \in Callers : StartChat(r)
    \/ \E r \in Callers : StartTools(r)
    \/ \E r \in Callers : Discovered(r)
    \/ \E r \in Callers, name \in ToolNames : InvokeTool(r, name)
    \/ \E r \in Callers : EndChat(r)
    \/ \E r \in Callers : FinishRequest(r)

SpecAgent == InitAgentSpec /\ [][NextAgent]_vars

\* ------------------------------------------------------------------ claims

\* C1: an ensureValid call made while a token is cached and the clock is
\* before expiresAt - 5 minutes sends no issuance request, returns success
\* and leaves the cached token and expiry unchanged (so two such calls make at
\* most one issuance request in total).
C1_CachedTokenNoIssuance ==
    [][\A c \in Callers :
         ( /\ pc[c] = "idle"
           /\ op'[c] = "api"
           /\ portal_token # NoToken
           /\ token_expires_at # NoExpiry
           /\ now < token_expires_at - 5 )
         => ( /\ issued' = issued
              /\ ens_reqs'[c] = 0
              /\ ens_ok'[c]
              /\ pc'[c] = "get"
              /\ portal_token' = portal_token
              /\ token_expires_at' = token_expires_at )]_vars

\* a call has returned from ensureValid with the cached token that the one
\* earlier issuance request brought
C1_Witness ==
    \E c \in Callers :
        /\ op[c] = "api"
        /\ pc[c] = "get"
        /\ ens_reqs[c] = 0
        /\ ens_ok[c]
        /\ sent_token[c] # NoToken
        /\ issued = 1

\* C2: an ensureValid call made with no cached token, no recorded expiry or
\* with now >= expiresAt - 5 minutes (boundary included) sends exactly one
\* issuance request before it returns, whether the request succeeds or fails.
C2_ExactlyOneIssuance ==
    [][\A c \in Callers :
         /\ ( /\ pc[c] = "idle"
              /\ op'[c] = "api"
              /\ \/ portal_token = NoToken
                 \/ token_expires_at = NoExpiry
                 \/ now >= token_expires_at - 5 )
            => ( /\ issued' = issued + 1
                 /\ ens_reqs'[c] = 1
                 /\ pc'[c] = "post" )
         /\ ( op[c] = "api" /\ pc[c] \in {"post", "closing"} )
            => ( /\ ens_reqs[c] = 1
                 /\ ens_reqs'[c] = 1
                 /\ pc'[c] \in {"post", "closing", "get"}
                 /\ issued' = issued \/ pc'[c] = pc[c] )]_vars

\* a call made exactly at expiresAt - 5 minutes has returned from ensureValid
\* after one issuance request
C2_Witness ==
    \E c \in Callers :
        /\ op[c] = "api"
        /\ pc[c] = "get"
        /\ ens_reqs[c] = 1
        /\ issued = 2
        /\ now = 55

\* C3: a failed issuance request (no 200, no token field, an exception)
\* leaves the cached token and the cached expiry as they were.
C3_FailureKeepsToken ==
    [][\A c \in Callers :
         /\ ( pc[c] = "post" /\ pc'[c] = "closing" /\ ret'[c] = NoToken )
            => ( /\ portal_token' = portal_token
                 /\ token_expires_at' = token_expires_at )
         /\ ( pc[c] = "closing" /\ ret[c] = NoToken /\ pc'[c] # "closing" )
            => ( /\ portal_token' = portal_token
                 /\ token_expires_at' = token_expires_at )]_vars

\* a refresh has failed and the token cached before it is still cached,
\* with its expiry
C3_Witness ==
    \E c \in Callers :
        /\ op[c] = "api"
        /\ pc[c] = "get"
        /\ ens_reqs[c] = 1
        /\ ~ens_ok[c]
        /\ portal_token # NoToken
        /\ expiry_token = portal_token

\* C4: when the issuance request of an operation fails, the operation does
\* not go on to its request and its result is an error.
C4_AuthFailureSurfaced ==
    \A c \in Callers :
        ( op[c] = "api" /\ ens_reqs[c] = 1 /\ ~ens_ok[c] )
        => ( /\ pc[c] # "get"
             /\ pc[c] = "done" => result[c] = "error" )

\* C5: at most one issuance request of ensureValid is in flight at any time.
C5_SingleFlight ==
    Cardinality({c \in Callers : op[c] = "api" /\ pc[c] = "post"}) <= 1

\* C6: wherever another coroutine can run, the cached expiry is the one
\* recorded for the cached token.
C6_NoTornToken ==
    portal_token # NoToken => expiry_token = portal_token

\* the services of the folders fs whose listing call answered, in order
RECURSIVE ListedIn(_)
ListedIn(fs) ==
    IF fs = << >> THEN << >>
    ELSE (IF Head(fs) \in failed THEN << >>
          ELSE Tagged(FolderPayload(backend, Head(fs)).services, Head(fs)))
         \o ListedIn(Tail(fs))

\* C7: when the root listing answers and the listing call of a folder fails
\* (error payload, another status, exception), list_services still returns a
\* catalog, not an error: the root services and the services of every folder
\* whose listing answered, without those of the failed folders.
C7_BestEffortPerFolder ==
    ( /\ cpc = "done"
      /\ c_op = "list"
      /\ << >> \notin failed
      /\ \A k \in 1..Len(log) : log[k].outcome # "null_body" )
    => ( /\ c_result.kind = "catalog"
         /\ c_result.services =
              Tagged(backend.root, << >>) \o ListedIn(backend.folders) )

\* a fetch has returned the root service and the services of one folder
\* while the listing of the other folder failed
C7_Witness ==
    /\ cpc = "done"
    /\ c_op = "list"
    /\ << >> \notin failed
    /\ Len(backend.folders) = 2
    /\ Cardinality(failed) = 1
    /\ backend.root # << >>
    /\ c_result.kind = "catalog"
    /\ Len(c_result.services) >= 2

\* C8: when the root listing call fails, list_services reports an error and
\* get_service_details does not report NotFound.
C8_RootFailureReported ==
    ( cpc = "done" /\ << >> \in failed )
    => ( /\ c_op = "list" => HasError(c_result)
         /\ c_op = "details" =>
              ~(c_result.kind = "error" /\ c_result.error = "not_found") )

\* the catalog entry i has exactly the name and folder asked for
ExactMatch(i) ==
    /\ all_services[i].name = service_name
    /\ all_services[i].folder = folder

\* C9: when some catalog entry matches the input by exact (name, folder)
\* equality, the resolved entry is one that does, wherever it stands in the
\* catalog.
C9_ExactMatchWins ==
    ( /\ c_op = "details"
      /\ cpc \in {"meta", "done"}
      /\ \E i \in 1..Len(all_services) : ExactMatch(i) )
    => ( /\ matching_service.found
         /\ ExactMatch(matching_service.idx) )

\* C10: with the entry {name: "TouristAttractions", folder: "Hosted"} in the
\* catalog, resolve("Hosted/TouristAttractions", "") succeeds and gives the
\* descriptor that resolve("TouristAttractions", "Hosted") gives.
C10_BothFormsResolve ==
    ( /\ c_op = "details"
      /\ cpc \in {"meta", "done"}
      /\ service_name = HostedTouristAttractions
      /\ folder = << >>
      /\ \E i \in 1..Len(all_services) :
            /\ all_services[i].name = TouristAttractions
            /\ all_services[i].folder = Hosted )
    => LET other == Resolve(all_services, TouristAttractions, Hosted)
       IN  /\ matching_service.found
           /\ other.found
           /\ matching_service.name = other.name
           /\ matching_service.folder = other.folder
           /\ matching_service.type = other.type

\* C11: when resolve(name, folder) succeeds with descriptor d, resolve(d.name,
\* d.folder) against the same catalog succeeds too and gives the same catalog
\* entry with the same name, folder and type.
C11_ResolverIdempotent ==
    ( /\ c_op = "details"
      /\ cpc \in {"meta", "done"}
      /\ matching_service.found )
    => LET d == matching_service
           again == Resolve(all_services, d.name, d.folder)
       IN  /\ again.found
           /\ again.idx = d.idx
           /\ again.name = d.name
           /\ again.folder = d.folder
           /\ again.type = d.type

\* C12: the catalog a fetch returns never holds two entries with the same
\* (folder, name) pair, whatever the root and folder listings answer.
C12_NoDuplicatePair ==
    ( cpc = "done" /\ c_op = "list" /\ c_result.kind = "catalog" )
    => \A i, j \in 1..Len(c_result.services) :
          ( /\ c_result.services[i].folder = c_result.services[j].folder
            /\ c_result.services[i].name = c_result.services[j].name )
          => i = j

\* an endpoint of a listing (the root, a folder) or of the token request,
\* not of a service
IsListingEndpoint(ep) == ~HasSlash(ep)

\* C13: when the name matches no entry of the fetched catalog in any tier,
\* get_service_details returns the NotFound payload with the name and folder
\* it was called with, not a network error, and sends no metadata request.
C13_NotFoundNoRequest ==
    ( /\ c_op = "details"
      /\ cpc \in {"meta", "done"}
      /\ \A k \in 1..Len(log) : log[k].outcome # "null_body"
      /\ \A i \in 1..Len(all_services) :
            ~MatchService(all_services[i], service_name, folder).hit )
    => ( /\ cpc = "done"
         /\ c_result.kind = "error"
         /\ c_result.error = "not_found"
         /\ c_result.name = service_name
         /\ c_result.folder = folder
         /\ \A k \in 1..Len(log) : IsListingEndpoint(log[k].ep) )

\* resolve("Unknown", "") has returned against a catalog that the server
\* listed as empty
C13_Witness ==
    /\ c_op = "details"
    /\ cpc = "done"
    /\ service_name = <<"Unknown">>
    /\ folder = << >>
    /\ failed = {}
    /\ all_services = << >>
    /\ c_result.kind = "error"
    /\ c_result.error = "not_found"

\* the system rules, as stated: the folder is a system folder, or the type
\* is a system type, or the lowercased name contains a system substring
SystemRule(service) ==
    \/ service.folder \in { <<"System">>, <<"Utilities">> }
    \/ service.type \in { "GPServer", "SymbolServer" }
    \/ \E pattern \in system_patterns :
          Contains(Lower(Letters(service.name)), pattern)

\* C14: every classified service has exactly one category: system when a
\* system rule holds (also in folder "Hosted"), otherwise hosted when its
\* folder is "Hosted", otherwise custom; ("GeocodeServer", "System") is
\* system, ("TouristAttractions", "Hosted") hosted, ("MyCustomApp", "") custom.
C14_OrderedClassification ==
    classified.category # "" =>
      /\ classified.category \in {"system", "hosted", "custom"}
      /\ classified.category = "system" <=> SystemRule(classified)
      /\ classified.category = "hosted" <=>
            ( ~SystemRule(classified) /\ classified.folder = <<"Hosted">> )
      /\ classified.category = "custom" <=>
            ( ~SystemRule(classified) /\ classified.folder # <<"Hosted">> )
      /\ ( /\ classified.name = <<"GeocodeServer">>
           /\ classified.folder = <<"System">> )
         => classified.category = "system"
      /\ ( /\ classified.name = <<"TouristAttractions">>
           /\ classified.folder = <<"Hosted">>
           /\ classified.type \in {"MapServer", "FeatureServer"} )
         => classified.category = "hosted"
      /\ ( /\ classified.name = <<"MyCustomApp">>
           /\ classified.folder = << >>
           /\ classified.type \in {"MapServer", "FeatureServer"} )
         => classified.category = "custom"

\* a service of folder "Hosted" whose name holds a system substring in
\* capitals has been classified as system
C14_Witness ==
    /\ classified.name = <<"TileCache">>
    /\ classified.folder = <<"Hosted">>
    /\ classified.type = "FeatureServer"
    /\ classified.category = "system"

\* C15: every entry that list_services returns carries its folder and a
\* category among system, hosted and custom; for the root listing
\* {services: [], folders: ["Hosted"]} and the Hosted listing
\* [{name: "TouristAttractions", type: "FeatureServer"}] it returns exactly
\* one entry, with folder "Hosted" and category "hosted".
C15_EntriesCarryFolderAndCategory ==
    ( /\ cpc = "done"
      /\ c_op \in {"list", "list_categorized"}
      /\ c_result.kind = "catalog" )
    => ( /\ \A i \in 1..Len(c_result.services) :
               /\ "folder" \in DOMAIN c_result.services[i]
               /\ "category" \in DOMAIN c_result.services[i]
               /\ c_result.services[i].category \in
                    {"system", "hosted", "custom"}
         /\ ( /\ backend.root = << >>
              /\ backend.folders = <<Hosted>>
              /\ backend.hosted =
                   <<[name |-> TouristAttractions, type |-> "FeatureServer"]>>
              /\ failed = {} )
            => ( /\ Len(c_result.services) = 1
                 /\ c_result.services[1].folder = Hosted
                 /\ c_result.services[1].category = "hosted" ) )

\* the requests of the current operation that went to a service
MetaRequests == { k \in 1..Len(log) : ~IsListingEndpoint(log[k].ep) }

QuerySent ==
    /\ c_op = "query"
    /\ cpc = "done"
    /\ \E k \in 1..Len(log) : EndsWith(log[k].ep, <<"query">>)

\* C17: the parameters of every query hold exactly one of resultRecordCount
\* and maxRecordCount: resultRecordCount when result_record_count is given
\* and > 0, otherwise maxRecordCount (1000 when max_record_count is not
\* given); with result_record_count = 10 there is no maxRecordCount.
C17_OneRecordCountParameter ==
    QuerySent =>
      LET keys == DOMAIN query_params
      IN  /\ ("resultRecordCount" \in keys) # ("maxRecordCount" \in keys)
          /\ "resultRecordCount" \in keys <=>
                (result_record_count # None /\ result_record_count > 0)
          /\ "resultRecordCount" \in keys =>
                query_params["resultRecordCount"] = Str(result_record_count)
          /\ "maxRecordCount" \in keys =>
                query_params["maxRecordCount"] =
                  IF max_record_count = None THEN "1000"
                  ELSE Str(max_record_count)
          /\ result_record_count = 10 => "maxRecordCount" \notin keys

\* a query called with result_record_count = 10 and max_record_count = 500
\* has been answered
C17_Witness ==
    /\ QuerySent
    /\ result_record_count = 10
    /\ max_record_count = 500
    /\ query_params["resultRecordCount"] = "10"
    /\ c_result.kind = "layer"

\* C18: every query has a where parameter that is not empty: "1=1" when the
\* where argument is empty, the where argument itself otherwise.
C18_WhereNeverEmpty ==
    QuerySent =>
      /\ "where" \in DOMAIN query_params
      /\ query_params["where"] # ""
      /\ where = "" => query_params["where"] = "1=1"
      /\ where # "" => query_params["where"] = where

\* a query called with an empty where clause has been answered
C18_Witness ==
    /\ QuerySent
    /\ where = ""
    /\ query_params["where"] = "1=1"
    /\ c_result.kind = "layer"

\* the current operation did not succeed: the root listing was not answered,
\* or (for the operations on one service) no entry was resolved or the
\* request to the service or to its layer was not answered
NotSucceeded ==
    \/ << >> \in failed
    \/ \E k \in 1..Len(log) : log[k].outcome = "null_body"
    \/ /\ c_op \in {"details", "query", "layer_info"}
       /\ \/ ~matching_service.found
          \/ \E ep \in failed : ~IsListingEndpoint(ep)

\* C19: every operation returns a payload for every outcome of its requests,
\* and the payload of an operation that did not succeed has an error key.
C19_ErrorKeyOnFailure ==
    cpc = "done" =>
      /\ c_result.kind \in {"catalog", "service", "layer", "error"}
      /\ NotSucceeded => HasError(c_result)

\* C20: when list_services or get_service_details returned {"error": ...},
\* the response of the endpoint has an error key at its top level.
C20_ErrorKeyAtTopLevel ==
    ( /\ cpc = "responded"
      /\ c_op \in {"list", "list_categorized", "details"}
      /\ HasError(c_result) )
    => "error" \in response.keys

\* the settings that are missing or empty
Unconfigured ==
    { v \in DOMAIN environ : environ[v] \in {"unset", "empty"} }

\* C21: when a URL, the username or the password is missing or empty, building
\* the client fails with an error that names the missing settings, and the
\* process (main.py) is never serving requests while it is not configured.
C21_NoServingUnconfigured ==
    ( server_module = "main" /\ Unconfigured # {} )
    => ( /\ arcgis_server = "None"
         /\ "names" \in DOMAIN http_response =>
               ( /\ http_response.error = "ValueError"
                 /\ { http_response.names[i] :
                        i \in 1..Len(http_response.names) } = Unconfigured )
         /\ process # "serving" )

\* the default that the claim gives an optional parameter
ClaimedDefault(param_info) ==
    IF param_info.default = "value" THEN "declared"
    ELSE CASE ParamType(param_info) = "boolean" -> "False"
           [] ParamType(param_info) = "integer" -> "0"
           [] ParamType(param_info) \in {"array", "object"} -> "None"
           [] OTHER -> ""

\* C22: in the generated input schema every required parameter has no
\* default, and every optional parameter (required false or not given) is
\* not required and has its declared default or, when none is declared,
\* false for boolean, 0 for integer, "" for string-typed and null for array
\* and object.
C22_SchemaDefaults ==
    schema # NotCreated =>
      \A n \in DOMAIN parameters :
         IF parameters[n].required = "yes"
         THEN /\ schema[n].required
              /\ schema[n].default = Undefined
         ELSE /\ ~schema[n].required
              /\ schema[n].default = ClaimedDefault(parameters[n])

\* C23: no operation retries: once a request of an operation (token issuance,
\* listing, metadata, query) has timed out or failed, the operation sends no
\* further request to the same endpoint.
C23_NoRetry ==
    \A j, k \in 1..Len(log) :
        ( j < k /\ log[j].ep = log[k].ep ) => log[j].outcome = "ok"

\* C24: a token issuance that is not the refresh of ensureValid (the one of
\* testConnection, the exposed getPortalToken) leaves the cached token and
\* the cached expiry as they were.
C24_DirectIssuanceKeepsCache ==
    [][\A c \in Callers :
         ( op[c] = "direct" /\ pc[c] # pc'[c] )
         => ( /\ portal_token' = portal_token
              /\ token_expires_at' = token_expires_at )]_vars

\* C25: the token attached to a request is valid when it is attached: it is
\* the cached token, the clock is before its expiresAt - 5 minutes, and it is
\* not a token left over from a refresh that has just failed.
C25_AttachedTokenValid ==
    [][\A c \in Callers :
         ( pc[c] # "get" /\ pc'[c] = "get" /\ sent_token'[c] # NoToken )
         => ( /\ sent_token'[c] = portal_token'
              /\ token_expires_at' # NoExpiry
              /\ now' < token_expires_at' - 5
              /\ ens_ok'[c] )]_vars

\* an endpoint below a service: of a layer or of its query
IsLayerEndpoint(ep) ==
    /\ HasSlash(ep)
    /\ ep[Len(ep)] \notin {"MapServer", "FeatureServer", "GeometryServer"}

\* the path of the resolved service
ResolvedPath ==
    IF matching_service.folder # << >>
    THEN matching_service.folder \o <<"/">> \o matching_service.name
         \o <<"/", matching_service.type>>
    ELSE matching_service.name \o <<"/", matching_service.type>>

\* C26: query_service_layer and get_layer_info send their layer request last,
\* after the root listing, a successful resolution and an answered metadata
\* request, to [folder/]name/type/layerId[/query] of the resolved service;
\* when the resolution or the metadata request fails they return the error
\* and send no layer request.
C26_ChainOrder ==
    c_op \in {"query", "layer_info"} =>
      /\ \A k \in 1..Len(log) :
            IsLayerEndpoint(log[k].ep) =>
              /\ matching_service.found
              /\ k = Len(log)
              /\ \E i, j \in 1..(k - 1) :
                    /\ i < j
                    /\ log[i].ep = << >>
                    /\ log[j].ep = ResolvedPath
                    /\ log[j].outcome = "ok"
              /\ log[k].ep =
                    ResolvedPath
                    \o <<"/", Str(IF c_op = "query" /\ layer_id = None
                                  THEN 0 ELSE layer_id)>>
                    \o (IF c_op = "query" THEN <<"/", "query">> ELSE << >>)
      /\ cpc = "layer" =>
            ( matching_service.found /\ c_result.kind = "service" )
      /\ ( /\ cpc = "done"
           /\ \/ ~matching_service.found
              \/ \E k \in 1..Len(log) :
                    log[k].ep = ResolvedPath /\ log[k].outcome # "ok" )
         => ( /\ HasError(c_result)
              /\ \A k \in 1..Len(log) : ~IsLayerEndpoint(log[k].ep) )

\* query_service_layer("Hosted/TouristAttractions", "", 1) has sent its query
\* to the layer of the resolved service
C26_Witness ==
    /\ c_op = "query"
    /\ cpc = "done"
    /\ service_name = HostedTouristAttractions
    /\ folder = << >>
    /\ layer_id = 1
    /\ matching_service.found
    /\ log[Len(log)].ep =
          <<"Hosted", "/", "TouristAttractions", "/", "MapServer", "/", "1",
            "/", "query">>
    /\ c_result.kind = "layer"

\* C27: the lifetime that a refresh requests from the issuance endpoint is 60
\* minutes, and the cached expiry is the issuance time plus that lifetime.
C27_RequestedLifetimeRecorded ==
    \A k \in 1..Len(log) :
        log[k].ep = TokenEndpoint =>
          /\ log[k].expiration = 60
          /\ log[k].outcome = "ok" =>
                token_expires_at = now + log[k].expiration

\* C28: over any interleaving of /chat and /tools requests on one agent,
\* tool discovery runs at most once, and once the agent is initialized its
\* tools and function table never change.
C28_SchemasGeneratedOnce ==
    [][/\ discoveries' <= 1
       /\ initialized =>
            ( tools' = tools /\ function_info' = function_info )]_vars

\* C30: the tools_used that process_message returns for a request is the
\* list of the tools invoked while handling that request, each once and in
\* order of first use, whatever other requests run meanwhile.
C30_ToolsUsedPerRequest ==
    \A r \in Callers :
        ( a_kind[r] = "chat" /\ apc[r] = "done" )
        => tools_used[r] = invoked[r]

\* C29: the count that list_services returns with its list is the number of
\* service descriptors in the list, and so is the count in the response of
\* the /list-services endpoint.
C29_CountMatchesList ==
    ( /\ cpc \in {"done", "responded"}
      /\ c_op \in {"list", "list_categorized"}
      /\ c_result.kind = "catalog" )
    => ( /\ c_result.count = Len(c_result.services)
         /\ cpc = "responded" => response.count = Len(c_result.services) )

====
